---- MODULE Spec2Model ----
(***************************************************************************)
(* Model of app.py of Big5-60p: the scoring function score_answers, the    *)
(* questionnaire submission handler test(), and the admin session          *)
(* (login, logout, admin list, CSV export).                                *)
(*                                                                         *)
(* Strings submitted in a form are sequences of one-character strings, so  *)
(* that int(val_str) is modelled by an actual parse.  The Response row     *)
(* keeps the columns id, O, C, E, A, N; ts is taken to grow with id, and   *)
(* nickname and email (free text copied from the form) are left out.       *)
(***************************************************************************)
EXTENDS Integers, Sequences, FiniteSets, TLC

\* ------------------------------------------------------------------ bounds
MaxItems == 2
MaxRecords == 2

\* ------------------------------------------------------- program constants
ItemsPerTrait == 12
AdminLimit == 500
traits == <<"O", "C", "E", "A", "N">>
AdminUser == "admin"
AdminPassword == "admin123"

\* ---------------------------------------------------------- input domains
Range(s) == {s[i] : i \in 1..Len(s)}

ItemTraitCodes == {"O", "C", "X"}
Scales == {[min |-> 1, max |-> 5], [min |-> 1, max |-> 3], [min |-> 2, max |-> 2]}
RawValues == {<<"1">>, <<"+", "3">>, <<"5">>, <<"7">>, <<"x">>}
Usernames == {"admin", "guest"}
Passwords == {"admin123", "wrong"}
Methods == {"GET", "POST"}

\* Item lists as load_assessment normalises them: unique integer ids,
\* an upper-case trait code, a boolean reverse flag.
ItemLists(n) ==
    {[i \in 1..n |-> [id |-> i, trait |-> tr[i], reverse |-> rv[i]]] :
        tr \in [1..n -> ItemTraitCodes], rv \in [1..n -> BOOLEAN]}

Instruments ==
    {[scale |-> sc, items |-> its] :
        sc \in Scales, its \in UNION {ItemLists(n) : n \in 0..MaxItems}}

\* The form fields q<id> of a request: a function from the ids that were
\* submitted to the submitted strings.
Forms(ids) == UNION {[S -> RawValues] : S \in SUBSET ids}

ItemIds(spec) == {spec.items[i].id : i \in 1..Len(spec.items)}

WebInstruments ==
    {[scale |-> [min |-> 1, max |-> 5],
      items |-> <<[id |-> 1, trait |-> "O", reverse |-> FALSE],
                  [id |-> 2, trait |-> "O", reverse |-> TRUE]>>],
     [scale |-> [min |-> 1, max |-> 5],
      items |-> <<[id |-> 1, trait |-> "O", reverse |-> FALSE],
                  [id |-> 2, trait |-> "X", reverse |-> FALSE]>>]}

\* ------------------------------------------------------------ int(val_str)
Digits == {"0", "1", "2", "3", "4", "5", "6", "7", "8", "9"}

DigitVal(c) ==
    CASE c = "0" -> 0 [] c = "1" -> 1 [] c = "2" -> 2 [] c = "3" -> 3
      [] c = "4" -> 4 [] c = "5" -> 5 [] c = "6" -> 6 [] c = "7" -> 7
      [] c = "8" -> 8 [] c = "9" -> 9

RECURSIVE DigitsValue(_, _)
DigitsValue(s, acc) ==
    IF s = <<>> THEN acc
    ELSE DigitsValue(Tail(s), acc * 10 + DigitVal(Head(s)))

\* int(s) for a string without blanks or underscores: an optional sign and
\* one or more decimal digits; anything else raises ValueError (ok = FALSE).
ParseInt(s) ==
    LET signed == s # <<>> /\ Head(s) \in {"+", "-"}
        body   == IF signed THEN Tail(s) ELSE s
    IN  IF body = <<>> \/ \E i \in 1..Len(body) : body[i] \notin Digits
        THEN [ok |-> FALSE, val |-> 0]
        ELSE [ok |-> TRUE,
              val |-> IF signed /\ Head(s) = "-"
                      THEN 0 - DigitsValue(body, 0)
                      ELSE DigitsValue(body, 0)]

\* ---------------------------------------------------------- score_answers
Reflect_const6(s_min, s_max, val) == 6 - val

Reflect(s_min, s_max, val) == s_min + s_max - val

\* int(round(num / den)) for den > 0: Python rounds halves to even.
RoundHalfEven(num, den) ==
    LET q == num \div den
        r == num - q * den
    IN  IF 2 * r < den THEN q
        ELSE IF 2 * r > den THEN q + 1
        ELSE IF q % 2 = 0 THEN q ELSE q + 1

NoSums == <<>>

Error(err, qid) ==
    [kind |-> "error", err |-> err, item |-> qid, sums |-> NoSums, percent |-> NoSums]

ScoreItem_skipMissing(form_dict, spec, item, sums) ==
    LET qid == item.id
    IN  IF qid \notin DOMAIN form_dict
        THEN [kind |-> "next", err |-> "", item |-> qid, sums |-> sums, percent |-> NoSums]
        ELSE LET p == ParseInt(form_dict[qid])
             IN  IF ~p.ok THEN Error("invalid", qid)
                 ELSE LET val == IF item.reverse
                                 THEN spec.scale.min + spec.scale.max - p.val
                                 ELSE p.val
                      IN  IF item.trait \notin Range(traits)
                          THEN Error("unknown_trait", qid)
                          ELSE [kind |-> "next", err |-> "", item |-> qid,
                                sums |-> [sums EXCEPT ![item.trait] = @ + val],
                                percent |-> NoSums]

\* One pass of the loop body: either the ValueError it raises or the sums
\* after the item was added.
ScoreItem(form_dict, spec, item, sums) ==
    LET qid == item.id
    IN  IF qid \notin DOMAIN form_dict
        THEN Error("missing", qid)
        ELSE LET p == ParseInt(form_dict[qid])
             IN  IF ~p.ok THEN Error("invalid", qid)
                 ELSE LET val == IF item.reverse
                                 THEN Reflect(spec.scale.min, spec.scale.max, p.val)
                                 ELSE p.val
                      IN  IF item.trait \notin Range(traits)
                          THEN Error("unknown_trait", qid)
                          ELSE [kind |-> "next", err |-> "", item |-> qid,
                                sums |-> [sums EXCEPT ![item.trait] = @ + val],
                                percent |-> NoSums]

Normalise(spec, sums) ==
    LET min_total == ItemsPerTrait * spec.scale.min
        max_total == ItemsPerTrait * spec.scale.max
        rng == IF max_total - min_total # 0 THEN max_total - min_total ELSE 1
    IN  [t \in Range(traits) |-> RoundHalfEven((sums[t] - min_total) * 100, rng)]

RECURSIVE ScoreLoop(_, _, _, _)
ScoreLoop(form_dict, spec, i, sums) ==
    IF i > Len(spec.items)
    THEN [kind |-> "ok", err |-> "", item |-> 0, sums |-> sums,
          percent |-> Normalise(spec, sums)]
    ELSE LET step == ScoreItem(form_dict, spec, spec.items[i], sums)
         IN  IF step.kind = "error" THEN step
             ELSE ScoreLoop(form_dict, spec, i + 1, step.sums)

score_answers(form_dict, spec) ==
    ScoreLoop(form_dict, spec, 1, [t \in Range(traits) |-> 0])

\* ------------------------------------------------------------------ state
VARIABLES
    instrument,  \* the assessment load_assessment returns
    form,        \* the form handed to score_answers when it is called alone
    out,         \* what that call returned or raised
    records,     \* the rows of table responses, in insertion order
    mailCalls,   \* number of calls of send_admin_email
    admin,       \* session["admin"]
    req,         \* the request being answered
    resp         \* the response to it

vars == <<instrument, form, out, records, mailCalls, admin, req, resp>>

NotCalled == [kind |-> "none", err |-> "", item |-> 0, sums |-> NoSums, percent |-> NoSums]
NoRequest == [route |-> "none", method |-> "GET", form |-> <<>>, username |-> "", password |-> ""]
Request(route, method) == [NoRequest EXCEPT !.route = route, !.method = method]
HttpResponse(kind, rows, queried) == [kind |-> kind, rows |-> rows, queried |-> queried]

WebInit ==
    /\ form = <<>>
    /\ out = NotCalled
    /\ records = <<>>
    /\ mailCalls = 0
    /\ admin = FALSE
    /\ req = NoRequest
    /\ resp = HttpResponse("none", <<>>, FALSE)

\* ------------------------------------------- score_answers called alone
ScoreInit ==
    /\ instrument \in Instruments
    /\ form \in Forms(ItemIds(instrument))
    /\ out = NotCalled
    /\ records = <<>>
    /\ mailCalls = 0
    /\ admin = FALSE
    /\ req = NoRequest
    /\ resp = HttpResponse("none", <<>>, FALSE)

Score ==
    /\ out = NotCalled
    /\ out' = score_answers(form, instrument)
    /\ UNCHANGED <<instrument, form, records, mailCalls, admin, req, resp>>

ScoreNext == Score

SpecScore == ScoreInit /\ [][ScoreNext]_vars

\* ------------------------------------------------------------- the routes
Init ==
    /\ instrument \in WebInstruments
    /\ WebInit

Reverse(s) == [i \in 1..Len(s) |-> s[Len(s) + 1 - i]]

FirstRows(s, n) == IF Len(s) <= n THEN s ELSE SubSeq(s, 1, n)

NewRow(sums) ==
    [id |-> Len(records) + 1,
     O |-> sums["O"], C |-> sums["C"], E |-> sums["E"], A |-> sums["A"], N |-> sums["N"]]

TestGet ==
    /\ req' = Request("test", "GET")
    /\ resp' = HttpResponse("test_form", <<>>, FALSE)
    /\ UNCHANGED <<instrument, form, out, records, mailCalls, admin>>

TestPost_storeOnError(f) ==
    LET expected == ItemIds(instrument)
        got      == DOMAIN f
        scored   == score_answers(f, instrument)
    IN  /\ req' = [Request("test", "POST") EXCEPT !.form = f]
        /\ IF expected \ got # {}
           THEN /\ resp' = HttpResponse("test_form_warning", <<>>, FALSE)
                /\ UNCHANGED <<records, mailCalls>>
           ELSE /\ Len(records) < MaxRecords
                /\ records' = Append(records,
                       NewRow(IF scored.kind = "error"
                              THEN [t \in Range(traits) |-> 0] ELSE scored.sums))
                /\ mailCalls' = mailCalls + 1
                /\ resp' = HttpResponse("redirect_thanks", <<>>, FALSE)
        /\ UNCHANGED <<instrument, form, out, admin>>

TestPost(f) ==
    LET expected == ItemIds(instrument)
        got      == DOMAIN f
        scored   == score_answers(f, instrument)
    IN  /\ req' = [Request("test", "POST") EXCEPT !.form = f]
        /\ IF expected \ got # {}
           THEN /\ resp' = HttpResponse("test_form_warning", <<>>, FALSE)
                /\ UNCHANGED <<records, mailCalls>>
           ELSE IF scored.kind = "error"
           THEN /\ resp' = HttpResponse("error_500", <<>>, FALSE)
                /\ UNCHANGED <<records, mailCalls>>
           ELSE /\ Len(records) < MaxRecords
                /\ records' = Append(records, NewRow(scored.sums))
                /\ mailCalls' = mailCalls + 1
                /\ resp' = HttpResponse("redirect_thanks", <<>>, FALSE)
        /\ UNCHANGED <<instrument, form, out, admin>>

Login(method, u, p) ==
    LET user_ok == u = AdminUser
        pass_ok == p = AdminPassword
    IN  /\ req' = [Request("login", method) EXCEPT !.username = u, !.password = p]
        /\ IF method = "POST" /\ user_ok /\ pass_ok
           THEN /\ admin' = TRUE
                /\ resp' = HttpResponse("redirect_next", <<>>, FALSE)
           ELSE /\ admin' = admin
                /\ resp' = HttpResponse("login_page", <<>>, FALSE)
        /\ UNCHANGED <<instrument, form, out, records, mailCalls>>

Logout ==
    /\ req' = Request("logout", "GET")
    /\ admin' = FALSE
    /\ resp' = HttpResponse("redirect_test", <<>>, FALSE)
    /\ UNCHANGED <<instrument, form, out, records, mailCalls>>

Admin_noAuth ==
    /\ req' = Request("admin", "GET")
    /\ resp' = HttpResponse("admin_html", FirstRows(Reverse(records), AdminLimit), TRUE)
    /\ UNCHANGED <<instrument, form, out, records, mailCalls, admin>>

Admin ==
    /\ req' = Request("admin", "GET")
    /\ IF ~admin
       THEN resp' = HttpResponse("redirect_login", <<>>, FALSE)
       ELSE resp' = HttpResponse("admin_html", FirstRows(Reverse(records), AdminLimit), TRUE)
    /\ UNCHANGED <<instrument, form, out, records, mailCalls, admin>>

AdminExportCsv ==
    /\ req' = Request("export", "GET")
    /\ IF ~admin
       THEN resp' = HttpResponse("redirect_login", <<>>, FALSE)
       ELSE resp' = HttpResponse("csv", records, TRUE)
    /\ UNCHANGED <<instrument, form, out, records, mailCalls, admin>>

Next ==
    \/ TestGet
    \/ \E f \in Forms(ItemIds(instrument)) : TestPost(f)
    \/ \E method \in Methods, u \in Usernames, p \in Passwords : Login(method, u, p)
    \/ Logout
    \/ Admin
    \/ AdminExportCsv

Spec == Init /\ [][Next]_vars

TypeOK ==
    /\ instrument \in Instruments \cup WebInstruments
    /\ admin \in BOOLEAN
    /\ mailCalls = Len(records)
    /\ out.kind \in {"none", "ok", "error"}

\* ------------------------------------------- vocabulary of the properties
Called == out.kind # "none"
Scale == instrument.scale
Items == instrument.items
ItemIdx == 1..Len(Items)
InstrumentTraits == {Items[i].trait : i \in ItemIdx}
KnownTraits == InstrumentTraits \subseteq Range(traits)
ItemsOf(t) == {i \in ItemIdx : Items[i].trait = t}

MissingIds(f) == {id \in ItemIds(instrument) : id \notin DOMAIN f}
Answer(f, i) == ParseInt(f[Items[i].id])
InScale(v) == Scale.min <= v /\ v <= Scale.max

\* exactly one in-range integer per item
ValidResponseSet ==
    /\ MissingIds(form) = {}
    /\ \A i \in ItemIdx : Answer(form, i).ok /\ InScale(Answer(form, i).val)

\* the value an item is scored with: the raw answer, reflected when reverse
Scored(f, i) ==
    IF Items[i].reverse THEN Scale.min + Scale.max - Answer(f, i).val
    ELSE Answer(f, i).val

RECURSIVE SumScored(_, _)
SumScored(f, S) ==
    IF S = {} THEN 0
    ELSE LET i == CHOOSE j \in S : TRUE
         IN  Scored(f, i) + SumScored(f, S \ {i})

\* what the first offending item of the instrument, in order, is wrong with
Problem(f, i) ==
    IF Items[i].id \notin DOMAIN f THEN "missing"
    ELSE IF ~Answer(f, i).ok THEN "invalid"
    ELSE IF Items[i].trait \notin Range(traits) THEN "unknown_trait"
    ELSE "none"

FirstProblem(f) ==
    CHOOSE i \in ItemIdx :
        /\ Problem(f, i) # "none"
        /\ \A j \in ItemIdx : j < i => Problem(f, j) = "none"

\* --------------------------------------------------------------- claims
\* C1: for every instrument (min < max, at least one item per trait) and
\* every valid response set, score returns for every trait of the
\* instrument a percentage between 0 and 100.
C1_PercentWithinBounds ==
    (Called /\ ValidResponseSet /\ KnownTraits /\ Scale.min < Scale.max) =>
        /\ out.kind = "ok"
        /\ \A t \in InstrumentTraits : 0 <= out.percent[t] /\ out.percent[t] <= 100

\* C2: a trait with n_t items is normalised with its own item count:
\* percentages[t] is (sums[t] - n_t*min) * 100 / (n_t*max - n_t*min),
\* rounded to the nearest integer.
C2_PerTraitNormalisation ==
    (Called /\ ValidResponseSet /\ KnownTraits /\ Scale.min < Scale.max) =>
        /\ out.kind = "ok"
        /\ \A t \in InstrumentTraits :
             LET n_t == Cardinality(ItemsOf(t))
             IN  out.percent[t] =
                     RoundHalfEven((out.sums[t] - n_t * Scale.min) * 100,
                                   n_t * Scale.max - n_t * Scale.min)

\* C3: when every item of a trait is scored with the scale minimum the
\* trait's percentage is exactly 0, and when every item is scored with the
\* scale maximum it is exactly 100.
C3_BoundaryPercentages ==
    (Called /\ ValidResponseSet /\ KnownTraits /\ Scale.min < Scale.max) =>
        /\ out.kind = "ok"
        /\ \A t \in InstrumentTraits :
             /\ (\A i \in ItemsOf(t) : Scored(form, i) = Scale.min) => out.percent[t] = 0
             /\ (\A i \in ItemsOf(t) : Scored(form, i) = Scale.max) => out.percent[t] = 100

\* C4: whenever score_answers returns, sums[t] is the sum over the items of
\* trait t of the raw answer, or of min + max - raw for a reverse item; every
\* item is counted in exactly one sum exactly once; and the reflection is an
\* involution on the scale that swaps min and max and fixes the midpoint.
C4_SumsOfReflectedAnswers ==
    out.kind = "ok" =>
        /\ \A t \in Range(traits) : out.sums[t] = SumScored(form, ItemsOf(t))
        /\ SumScored(form, ItemIdx) =
               out.sums["O"] + out.sums["C"] + out.sums["E"] + out.sums["A"] + out.sums["N"]
        /\ \A v \in Scale.min..Scale.max :
             /\ InScale(Reflect(Scale.min, Scale.max, v))
             /\ Reflect(Scale.min, Scale.max, Reflect(Scale.min, Scale.max, v)) = v
             /\ (2 * v = Scale.min + Scale.max => Reflect(Scale.min, Scale.max, v) = v)
        /\ Reflect(Scale.min, Scale.max, Scale.min) = Scale.max
        /\ Reflect(Scale.min, Scale.max, Scale.max) = Scale.min

C4_Witness ==
    /\ out.kind = "ok"
    /\ Scale.min < Scale.max
    /\ \E i, j \in ItemsOf("O") :
         /\ Items[i].reverse /\ ~Items[j].reverse
         /\ Answer(form, i).val = Scale.min
         /\ out.sums["O"] = Scale.max + Answer(form, j).val

\* C5: a response set holding an integer outside [scale.min, scale.max] is
\* rejected with an error and no score report comes out of it.
C5_OutOfRangeRejected ==
    (Called /\ \E i \in ItemIdx :
                 /\ Items[i].id \in DOMAIN form
                 /\ Answer(form, i).ok
                 /\ ~InScale(Answer(form, i).val)) =>
        out.kind = "error"

\* C6 as stated: every response set lacking an entry for an item fails with
\* the missing-answer error naming a missing item id.
C6_MissingAlwaysReported ==
    (Called /\ MissingIds(form) # {}) =>
        /\ out.kind = "error"
        /\ out.err = "missing"
        /\ out.item \in MissingIds(form)

\* C6 amended: a response set lacking an entry for an item never yields a
\* score report; the error raised is the one of the first item, in
\* instrument order, that is missing, not an integer, or of an unknown
\* trait, so it is the missing-answer error naming the first missing id
\* whenever no earlier item is invalid.
C6_FirstOffenceReported ==
    (Called /\ MissingIds(form) # {}) =>
        /\ out.kind = "error"
        /\ out.sums = NoSums /\ out.percent = NoSums
        /\ out.err = Problem(form, FirstProblem(form))
        /\ out.item = Items[FirstProblem(form)].id
        /\ (out.err = "missing" => out.item \in MissingIds(form))

C6_Witness ==
    /\ Called
    /\ DOMAIN form # {}
    /\ out.err = "missing"
    /\ out.item = 2
    /\ MissingIds(form) = {2}

\* C7: the keys of sums and of percentages are exactly the trait codes that
\* appear on an item of the instrument.
C7_KeysAreInstrumentTraits ==
    (Called /\ ValidResponseSet /\ KnownTraits /\ Items # <<>>) =>
        /\ out.kind = "ok"
        /\ DOMAIN out.sums = InstrumentTraits
        /\ DOMAIN out.percent = InstrumentTraits

\* C8: a reported trait whose achievable range is empty (no item, or a scale
\* with min = max) has percentage 0.
C8_EmptyRangeGivesZero ==
    (out.kind = "ok" /\ Items # <<>>) =>
        \A t \in DOMAIN out.percent :
            LET n_t == Cardinality(ItemsOf(t))
            IN  n_t * Scale.max = n_t * Scale.min => out.percent[t] = 0

\* C9: a row is added to the store only by a POST of the questionnaire in
\* which every expected key is present and scoring raised nothing, and then
\* exactly one row holding that submission's five sums is added and the
\* admin mail is attempted once; any other request leaves the rows and the
\* mails as they were.
C9_StoreOnlyScoredSubmissions ==
    [][LET f == req'.form
           complete == /\ req'.route = "test" /\ req'.method = "POST"
                       /\ MissingIds(f) = {}
           scores == \A i \in ItemIdx : Problem(f, i) = "none"
       IN  IF complete /\ scores
           THEN /\ Len(records') = Len(records) + 1
                /\ SubSeq(records', 1, Len(records)) = records
                /\ LET r == records'[Len(records')]
                   IN  /\ r.O = SumScored(f, ItemsOf("O"))
                       /\ r.C = SumScored(f, ItemsOf("C"))
                       /\ r.E = SumScored(f, ItemsOf("E"))
                       /\ r.A = SumScored(f, ItemsOf("A"))
                       /\ r.N = SumScored(f, ItemsOf("N"))
                /\ mailCalls' = mailCalls + 1
           ELSE records' = records /\ mailCalls' = mailCalls]_vars

C9_Witness ==
    /\ Len(records) = 2
    /\ resp.kind = "redirect_thanks"
    /\ records[1].O # records[2].O

\* C10: the admin list and the export hand out stored rows only while the
\* session's admin flag is set; the flag is set only by a login POST whose
\* username and password both match, logout clears it, and a request made
\* while it is unset is redirected to the login page without a query.
C10_AdminOnlyWhileLoggedIn ==
    [][/\ req'.route \in {"admin", "export"} =>
            IF admin
            THEN /\ resp'.queried
                 /\ resp'.rows = IF req'.route = "admin" THEN Reverse(records) ELSE records
            ELSE /\ resp'.kind = "redirect_login"
                 /\ ~resp'.queried
                 /\ resp'.rows = <<>>
       /\ (resp'.queried \/ resp'.rows # <<>>) =>
            admin /\ req'.route \in {"admin", "export"}
       /\ (admin' /\ ~admin) =>
            /\ req'.route = "login" /\ req'.method = "POST"
            /\ req'.username = AdminUser /\ req'.password = AdminPassword
       /\ (req'.route = "login" /\ req'.method = "POST"
             /\ req'.username = AdminUser /\ req'.password = AdminPassword) => admin'
       /\ req'.route = "logout" => ~admin'
       /\ (admin /\ ~admin') => req'.route = "logout"]_vars

C10_Witness ==
    /\ admin
    /\ req.route = "export"
    /\ resp.kind = "csv"
    /\ Len(resp.rows) = 2

====
